---- MODULE Spec2Model ----
(***************************************************************************)
(* Model of the query service of graphrag-neo4j-deepresearch (app.py): the *)
(* Flask routes GET /, POST /query and POST /webhook, each handler taken   *)
(* as one atomic step from the parsed request to the response it returns.  *)
(*                                                                         *)
(* The two calls that leave the repository are modelled by everything they *)
(* can do to the handler: request.get_json() returns a JSON value or None, *)
(* or raises; rag.search() returns a result carrying an answer, or raises. *)
(*                                                                         *)
(* SpecRetrieval models the graph-expanding retriever scripts: the rows of *)
(* the index stage passed through the scripts' RETRIEVAL_QUERY, read with  *)
(* the semantics Cypher gives MATCH, grouping and collect().               *)
(***************************************************************************)
EXTENDS Integers, Sequences, FiniteSets, TLC

\* ---------------------------------------------------------------- bounds
MaxRequests == 3

\* ------------------------------------------------------ program constants
DefaultTopK == 5
WebhookTopK == 5
HttpOk == 200
HttpBadRequest == 400
HttpInternalError == 500

\* ------------------------------------------------------------ input sets
QueryTexts == {"", "who is paul"}
TopKs == {1, 5, 7}
Answers == {"", "Paul is the heir"}
ErrorTexts == {"", "provider failure"}

NoSearch == [called |-> FALSE, query_text |-> "", top_k |-> 0, raised |-> FALSE]

\* A JSON value as the handlers see it.  kind is the Python type the value
\* parses to; truthy is bool(value); hasQuery is the result of
\* ('query' in value) for the kinds that support the test (key of a dict,
\* element of a list, substring of a str).
JsonDicts ==
    { [kind |-> "dict", truthy |-> (hq \/ ht \/ o), hasQuery |-> hq,
       query |-> q, hasTopK |-> ht, top_k |-> t] :
        hq \in BOOLEAN, ht \in BOOLEAN, o \in BOOLEAN,
        q \in QueryTexts, t \in TopKs }

JsonOthers ==
    { [kind |-> k, truthy |-> tr, hasQuery |-> hq,
       query |-> "", hasTopK |-> FALSE, top_k |-> 0] :
        k \in {"list", "str"}, tr \in BOOLEAN, hq \in BOOLEAN }
    \cup
    { [kind |-> k, truthy |-> tr, hasQuery |-> FALSE,
       query |-> "", hasTopK |-> FALSE, top_k |-> 0] :
        k \in {"num", "bool"}, tr \in BOOLEAN }
    \cup
    { [kind |-> "null", truthy |-> FALSE, hasQuery |-> FALSE,
       query |-> "", hasTopK |-> FALSE, top_k |-> 0] }

\* An empty container holds nothing; a dict without the key carries no
\* value for it.
WellFormedJson(d) ==
    /\ (d.kind \in {"list", "str"} /\ ~d.truthy) => ~d.hasQuery
    /\ (d.kind = "dict" /\ ~d.hasQuery) => d.query = ""
    /\ (d.kind = "dict" /\ ~d.hasTopK) => d.top_k = 1

JsonValues == { d \in JsonDicts \cup JsonOthers : WellFormedJson(d) }

\* What the client sent: a JSON document, a body that is not parseable, or
\* a request without a JSON content type.
Payloads ==
    { [sent |-> "json", data |-> d] : d \in JsonValues }
    \cup
    { [sent |-> s, data |-> CHOOSE d \in JsonValues : d.kind = "null"] :
        s \in {"malformed", "nonjson"} }

\* request.get_json(): the parsed value, None, or an exception.  A
\* malformed body raises; a body without a JSON content type yields None
\* or raises, depending on the Flask release.
GetJsonOutcomes(p) ==
    CASE p.sent = "json" -> { [raised |-> FALSE, data |-> p.data, msg |-> ""] }
      [] p.sent = "malformed" ->
            { [raised |-> TRUE, data |-> p.data, msg |-> "400 Bad Request"] }
      [] p.sent = "nonjson" ->
            { [raised |-> FALSE, data |-> p.data, msg |-> ""],
              [raised |-> TRUE, data |-> p.data,
               msg |-> "415 Unsupported Media Type"] }

\* rag.search(): a result with an answer, or an exception.
SearchOutcomes ==
    { [raised |-> FALSE, answer |-> a, msg |-> ""] : a \in Answers }
    \cup
    { [raised |-> TRUE, answer |-> "", msg |-> m] : m \in ErrorTexts }

\* The except branch as it would be if the handler swallowed the exception
\* and answered as though the search had returned nothing.
ErrorResponseSwallowed(msg, search) ==
    [code |-> HttpOk,
     body |-> [answer |-> "", status |-> "success"],
     search |-> search]

\* The except branch of both handlers.
ErrorResponse(msg, search) ==
    [code |-> HttpInternalError,
     body |-> [error |-> msg, status |-> "error"],
     search |-> search]

\* Lines 51-57 and 83-89: the checks on the parsed body, common to both
\* handlers.  Yields the early response, or "pass" with the query text.
Validate(gj) ==
    IF gj.raised THEN
        [pass |-> FALSE, resp |-> ErrorResponse(gj.msg, NoSearch)]
    ELSE IF ~gj.data.truthy THEN
        [pass |-> FALSE,
         resp |-> [code |-> HttpBadRequest,
                   body |-> [error |-> "No data provided"],
                   search |-> NoSearch]]
    ELSE IF gj.data.kind \in {"num", "bool"} THEN
        \* ('query' in data) raises TypeError
        [pass |-> FALSE,
         resp |-> ErrorResponse("argument is not iterable", NoSearch)]
    ELSE IF ~gj.data.hasQuery THEN
        [pass |-> FALSE,
         resp |-> [code |-> HttpBadRequest,
                   body |-> [error |-> "No query provided"],
                   search |-> NoSearch]]
    ELSE IF gj.data.kind # "dict" THEN
        \* data['query'] raises TypeError
        [pass |-> FALSE,
         resp |-> ErrorResponse("indices must be integers", NoSearch)]
    ELSE
        [pass |-> TRUE, resp |-> ErrorResponse("", NoSearch)]

\* POST /query
QueryHandler(gj, out) ==
    LET v == Validate(gj) IN
    IF ~v.pass THEN v.resp
    ELSE
        LET query_text == gj.data.query
            top_k == IF gj.data.hasTopK THEN gj.data.top_k ELSE DefaultTopK
            search == [called |-> TRUE, query_text |-> query_text,
                       top_k |-> top_k, raised |-> out.raised]
        IN  IF out.raised THEN ErrorResponse(out.msg, search)
            ELSE [code |-> HttpOk,
                  body |-> [answer |-> out.answer, query |-> query_text,
                            top_k |-> top_k, status |-> "success"],
                  search |-> search]

\* POST /webhook
WebhookHandler(gj, out) ==
    LET v == Validate(gj) IN
    IF ~v.pass THEN v.resp
    ELSE
        LET query_text == gj.data.query
            search == [called |-> TRUE, query_text |-> query_text,
                       top_k |-> WebhookTopK, raised |-> out.raised]
        IN  IF out.raised THEN ErrorResponse(out.msg, search)
            ELSE [code |-> HttpOk,
                  body |-> [answer |-> out.answer, query |-> query_text,
                            status |-> "success"],
                  search |-> search]

\* GET /
HomeHandler ==
    [code |-> HttpOk,
     body |-> [status |-> "healthy", message |-> "GraphRAG API is running",
               endpoints |-> [health |-> "GET /", query |-> "POST /query",
                              webhook |-> "POST /webhook"]],
     search |-> NoSearch]

\* ----------------------------------------------------------------- state
VARIABLES
    served,     \* number of requests answered so far
    route,      \* route of the last request ("" before the first)
    payload,    \* what the last request carried
    response,   \* code and body of the last response
    search,     \* the rag.search call made while serving the last request
    searches,   \* number of rag.search calls made so far
    store,      \* the graph the retriever scripts read: chunk nodes and edges
    strategy,   \* the retriever script that ran the last search ("none" at first)
    hits,       \* rows (node, score) of the index stage of the last search
    records,    \* rows the last search returned after its retrieval query
    splitter,   \* config_pipelines/process_all_splitters.py: process_all_configs
    t2c,        \* examples/retrieve/dune_text2cypher_search.py: the query loop
    builder,    \* build_all_graphs.py: main and its process_config tasks
    kg,         \* src/functions/kg_operations.py: process_text_to_kg
    runner,     \* run_all_retrievers.py: main
    cleaner,    \* delete_all_graphs.py: main and the database it empties
    indexer     \* create_vector_index.py and the indexes of the database

appVars == <<served, route, payload, response, search, searches>>

retrievalVars == <<store, strategy, hits, records>>

scriptVars == <<splitter, t2c, builder, kg, runner, cleaner, indexer>>

vars == <<served, route, payload, response, search, searches,
          store, strategy, hits, records,
          splitter, t2c, builder, kg, runner, cleaner, indexer>>

\* ------------------------------------------------------- the graph store
\* Chunk nodes reachable through the indexes the retriever scripts name.
Nodes == {"c1", "c2"}

\* The properties of a chunk node that RETRIEVAL_QUERY reads.
NodeProps ==
    { [text |-> "Paul is the heir", entity_type |-> "Character"],
      [text |-> "Paul is the heir", entity_type |-> "null"],
      [text |-> "Arrakis is a desert", entity_type |-> "null"] }

\* What RETRIEVAL_QUERY collects of one relationship leaving a chunk:
\* type(r), related.name and labels(related)[0].
Rels ==
    { [relationship |-> "FROM_DOCUMENT", relatedName |-> "dune",
       relatedType |-> "Document"],
      [relationship |-> "NEXT_CHUNK", relatedName |-> "null",
       relatedType |-> "TextChunk"] }

\* A store: the properties of each chunk and the relationships leaving it.
Stores == [props : [Nodes -> NodeProps], out : [Nodes -> SUBSET Rels]]

EmptyStore ==
    [props |-> [n \in Nodes |-> [text |-> "Arrakis is a desert",
                                 entity_type |-> "null"]],
     out |-> [n \in Nodes |-> {}]]

RetrievalIdle ==
    /\ strategy = "none"
    /\ hits = <<>>
    /\ records = <<>>

NoPayload == [sent |-> "nonjson",
              data |-> CHOOSE d \in JsonValues : d.kind = "null"]

\* ------------------------------------------------ scripts not yet started
SplitterIdle ==
    [pc |-> "idle", files |-> 0, attempted |-> 0, processed |-> 0,
     driver |-> "none", closes |-> 0, usedClosed |-> FALSE,
     pending |-> FALSE, logged |-> FALSE, raised |-> FALSE]

\* examples/retrieve/dune_text2cypher_search.py: the number of queries in
\* the list the loop goes through
NumQueries == 5

T2cIdle ==
    [pc |-> "idle", i |-> 0,
     submitted |-> [q \in 1..NumQueries |-> 0],
     failed |-> [q \in 1..NumQueries |-> FALSE],
     logged |-> [q \in 1..NumQueries |-> FALSE],
     files |-> [q \in 1..NumQueries |-> "none"],
     raised |-> FALSE]

\* build_all_graphs.py: the most *.yaml files the configuration directory
\* holds
MaxYaml == 3

BuilderIdle ==
    [pc |-> "idle", dirExists |-> TRUE, files |-> 0,
     tasks |-> [n \in 1..MaxYaml |-> "none"],
     failed |-> [n \in 1..MaxYaml |-> FALSE],
     logged |-> [n \in 1..MaxYaml |-> FALSE],
     overlapped |-> FALSE, failedAmid |-> FALSE, raised |-> FALSE]

KgIdle ==
    [pc |-> "idle", driver |-> "none", closes |-> 0, usedClosed |-> FALSE,
     pending |-> FALSE, returned |-> FALSE, raised |-> FALSE]

RunnerIdle ==
    [pc |-> "idle", i |-> 0, results |-> <<>>, runs |-> <<>>,
     successful |-> 0, summary |-> FALSE, raised |-> FALSE]

EmptyDb == [constraints |-> {}, indexes |-> {}, nodes |-> 0, rels |-> 0]

CleanerIdle ==
    [pc |-> "idle", env |-> TRUE, driver |-> "none", closes |-> 0,
     usedClosed |-> FALSE, pending |-> FALSE, logged |-> FALSE,
     db |-> EmptyDb, db0 |-> EmptyDb, committed |-> <<>>]

IndexerIdle ==
    [pc |-> "idle", name |-> "", indexes |-> {}, created |-> FALSE,
     failed |-> FALSE, found |-> <<>>]

ScriptsAre(sp, tc, bd, k, rn, cl, ix) ==
    /\ splitter = sp
    /\ t2c = tc
    /\ builder = bd
    /\ kg = k
    /\ runner = rn
    /\ cleaner = cl
    /\ indexer = ix

ScriptsIdle ==
    ScriptsAre(SplitterIdle, T2cIdle, BuilderIdle, KgIdle, RunnerIdle,
               CleanerIdle, IndexerIdle)

\* The query service before its first request.
AppIdle ==
    /\ served = 0
    /\ route = ""
    /\ payload = NoPayload
    /\ response = [code |-> 0, body |-> [status |-> "none"]]
    /\ search = NoSearch
    /\ searches = 0

Init ==
    /\ served = 0
    /\ route = ""
    /\ payload = NoPayload
    /\ response = [code |-> 0, body |-> [status |-> "none"]]
    /\ search = NoSearch
    /\ searches = 0
    /\ store = EmptyStore
    /\ RetrievalIdle
    /\ ScriptsIdle

Respond(r, p, resp) ==
    /\ served' = served + 1
    /\ route' = r
    /\ payload' = p
    /\ response' = [code |-> resp.code, body |-> resp.body]
    /\ search' = resp.search
    /\ searches' = searches + (IF resp.search.called THEN 1 ELSE 0)
    /\ UNCHANGED retrievalVars
    /\ UNCHANGED scriptVars

home ==
    /\ served < MaxRequests
    /\ Respond("/", NoPayload, HomeHandler)

query ==
    /\ served < MaxRequests
    /\ \E p \in Payloads : \E gj \in GetJsonOutcomes(p) :
       \E out \in SearchOutcomes :
            Respond("/query", p, QueryHandler(gj, out))

webhook ==
    /\ served < MaxRequests
    /\ \E p \in Payloads : \E gj \in GetJsonOutcomes(p) :
       \E out \in SearchOutcomes :
            Respond("/webhook", p, WebhookHandler(gj, out))

Next == home \/ query \/ webhook

Spec == Init /\ [][Next]_vars

\* ------------------------------------------- graph-expanding retrievers
\* dune_vector_cypher_search.py and dune_hybrid_cypher_search.py: the index
\* stage hands rows (node, score) to the script's RETRIEVAL_QUERY.
SearchTopK == 3

Scores == {1, 2}

\* The rows an index stage can yield for top_k = 3: at most top_k rows,
\* each node once, scores not increasing.
IndexRows ==
    { rows \in UNION { [1..n -> [node : Nodes, score : Scores]] :
                         n \in 0..SearchTopK } :
        /\ \A i, j \in DOMAIN rows : i # j => rows[i].node # rows[j].node
        /\ \A i, j \in DOMAIN rows : i < j => rows[i].score >= rows[j].score }

\* Every order in which the rows of the set S can be returned.
Orderings(S) ==
    { f \in [1..Cardinality(S) -> S] :
        \A i, j \in 1..Cardinality(S) : i # j => f[i] # f[j] }

\* MATCH (node)-[r]->(related): one row per relationship leaving the node
\* of an incoming row; an incoming row whose node has none yields no row.
MatchOutgoing(st, rows) ==
    { m \in [i : DOMAIN rows, rel : Rels] : m.rel \in st.out[rows[m.i].node] }

\* The grouping key of RETURN: the non-aggregated columns node.text,
\* node.entity_type and score.
GroupKey(st, row) ==
    [content |-> st.props[row.node].text,
     entityType |-> st.props[row.node].entity_type,
     similarityScore |-> row.score]

\* RETRIEVAL_QUERY applied to the rows of the index stage: the rows left by
\* MATCH, grouped by the non-aggregated columns, collect() gathering one map
\* per matched relationship of the group (kept here as a count per map).
\* Cypher fixes no order for the result, so every order is possible.
RetrievalQuery(st, rows) ==
    LET matched == MatchOutgoing(st, rows)
        keys == { GroupKey(st, rows[m.i]) : m \in matched }
        connections(k) ==
            [r \in Rels |->
                Cardinality({ m \in matched :
                    m.rel = r /\ GroupKey(st, rows[m.i]) = k })]
        result == { [content |-> k.content, entityType |-> k.entityType,
                     similarityScore |-> k.similarityScore,
                     connections |-> connections(k)] : k \in keys }
    IN  Orderings(result)

InitRetrieval ==
    /\ served = 0
    /\ route = ""
    /\ payload = NoPayload
    /\ response = [code |-> 0, body |-> [status |-> "none"]]
    /\ search = NoSearch
    /\ searches = 0
    /\ store \in Stores
    /\ RetrievalIdle
    /\ ScriptsIdle

Searched(name, rows, recs) ==
    /\ strategy' = name
    /\ hits' = rows
    /\ records' = recs
    /\ UNCHANGED store
    /\ UNCHANGED appVars
    /\ UNCHANGED scriptVars

\* retriever.search(query_text, top_k=3) of VectorCypherRetriever
vector_cypher_search ==
    \E rows \in IndexRows : \E recs \in RetrievalQuery(store, rows) :
        Searched("vector_cypher", rows, recs)

\* retriever.search(query_text, top_k=3) of HybridCypherRetriever
hybrid_cypher_search ==
    \E rows \in IndexRows : \E recs \in RetrievalQuery(store, rows) :
        Searched("hybrid_cypher", rows, recs)

NextRetrieval == vector_cypher_search \/ hybrid_cypher_search

SpecRetrieval == InitRetrieval /\ [][NextRetrieval]_vars

\* ---------------------------------------------------- ingestion tooling
\* A call that leaves the repository returns or raises.
CallOutcomes == {"ok", "raise"}

\* Use of a driver: a use after close() is remembered.
UseDriver(p) ==
    [p EXCEPT !.usedClosed = p.usedClosed \/ p.driver = "closed"]

CloseDriver(p) ==
    [p EXCEPT !.driver = "closed", !.closes = p.closes + 1]

\* ---- config_pipelines/process_all_splitters.py: process_all_configs
MaxConfigs == 2

\* process_config(driver, config_file): the module neither defines nor
\* imports the name, so the call raises NameError.
ProcessConfigOutcomes == {"raise"}

\* lines 68-71: the configuration files found
splitter_glob ==
    /\ splitter.pc = "start"
    /\ splitter' = [splitter EXCEPT !.pc = "connect"]
    /\ UNCHANGED <<appVars, retrievalVars, t2c, builder, kg, runner,
                   cleaner, indexer>>

\* lines 74-75: driver = neo4j.GraphDatabase.driver(uri, auth=auth)
splitter_connect ==
    /\ splitter.pc = "connect"
    /\ \E o \in CallOutcomes :
        splitter' =
            IF o = "ok"
            THEN [splitter EXCEPT !.pc = "loop", !.driver = "open"]
            ELSE [splitter EXCEPT !.pc = "except", !.pending = TRUE]
    /\ UNCHANGED <<appVars, retrievalVars, t2c, builder, kg, runner,
                   cleaner, indexer>>

\* lines 79-80: one iteration of the loop, or its end
splitter_process ==
    /\ splitter.pc = "loop"
    /\ IF splitter.attempted < splitter.files
       THEN \E o \in ProcessConfigOutcomes :
            LET p == [UseDriver(splitter) EXCEPT
                        !.attempted = splitter.attempted + 1]
            IN  splitter' =
                    IF o = "ok"
                    THEN [p EXCEPT !.processed = p.processed + 1]
                    ELSE [p EXCEPT !.pc = "finally", !.pending = TRUE]
       ELSE splitter' = [splitter EXCEPT !.pc = "finally"]
    /\ UNCHANGED <<appVars, retrievalVars, t2c, builder, kg, runner,
                   cleaner, indexer>>

\* process_all_configs as it would be with driver.close() at the end of the
\* try body instead of in a finally clause.
splitter_close_on_success ==
    /\ splitter.pc = "finally"
    /\ splitter' =
        IF splitter.pending THEN [splitter EXCEPT !.pc = "except"]
        ELSE [CloseDriver(splitter) EXCEPT !.pc = "done"]
    /\ UNCHANGED <<appVars, retrievalVars, t2c, builder, kg, runner,
                   cleaner, indexer>>

\* lines 82-84: finally: driver.close()
splitter_finally ==
    /\ splitter.pc = "finally"
    /\ splitter' =
        [CloseDriver(splitter) EXCEPT
            !.pc = IF splitter.pending THEN "except" ELSE "done"]
    /\ UNCHANGED <<appVars, retrievalVars, t2c, builder, kg, runner,
                   cleaner, indexer>>

\* lines 86-88: except Exception: logger.error(...); raise
splitter_except ==
    /\ splitter.pc = "except"
    /\ splitter' = [splitter EXCEPT !.pc = "done", !.logged = TRUE,
                                    !.raised = TRUE]
    /\ UNCHANGED <<appVars, retrievalVars, t2c, builder, kg, runner,
                   cleaner, indexer>>

SplitterStarts ==
    { [SplitterIdle EXCEPT !.pc = "start", !.files = n] : n \in 0..MaxConfigs }

NextSplitter ==
    \/ splitter_glob
    \/ splitter_connect
    \/ splitter_process
    \/ splitter_finally
    \/ splitter_except

\* ---- src/functions/kg_operations.py: process_text_to_kg
\* line 96: with GraphDatabase.driver(uri, auth=auth) as driver
kg_open ==
    /\ kg.pc = "start"
    /\ \E o \in CallOutcomes :
        kg' = IF o = "ok"
              THEN [kg EXCEPT !.pc = "create", !.driver = "open"]
              ELSE [kg EXCEPT !.pc = "done", !.raised = TRUE]
    /\ UNCHANGED <<appVars, retrievalVars, splitter, t2c, builder, runner,
                   cleaner, indexer>>

\* lines 97-103: pipeline = create_kg_pipeline(driver=driver, ...)
kg_create_pipeline ==
    /\ kg.pc = "create"
    /\ \E o \in CallOutcomes :
        kg' = IF o = "ok"
              THEN [UseDriver(kg) EXCEPT !.pc = "run"]
              ELSE [kg EXCEPT !.pc = "exit", !.pending = TRUE]
    /\ UNCHANGED <<appVars, retrievalVars, splitter, t2c, builder, runner,
                   cleaner, indexer>>

\* line 104: result = asyncio.run(build_kg_from_text(pipeline, text))
kg_run ==
    /\ kg.pc = "run"
    /\ \E o \in CallOutcomes :
        kg' = [UseDriver(kg) EXCEPT !.pc = "exit", !.pending = (o = "raise")]
    /\ UNCHANGED <<appVars, retrievalVars, splitter, t2c, builder, runner,
                   cleaner, indexer>>

\* leaving the with block closes the driver; line 105 returns the result
kg_exit ==
    /\ kg.pc = "exit"
    /\ kg' = [CloseDriver(kg) EXCEPT !.pc = "done",
                                     !.returned = ~kg.pending,
                                     !.raised = kg.pending]
    /\ UNCHANGED <<appVars, retrievalVars, splitter, t2c, builder, runner,
                   cleaner, indexer>>

KgStart == [KgIdle EXCEPT !.pc = "start"]

NextKg == kg_open \/ kg_create_pipeline \/ kg_run \/ kg_exit

\* ---- delete_all_graphs.py
ConstraintNames == {"entity_name_unique"}

\* Index names used in the repository: the retrievers' vector index and the
\* default INDEX_NAME of app.py.
IndexNames == {"dune_vector_search", "vector-index-name"}

MaxDbNodes == 2

\* A name that is not a plain Cypher identifier; DROP ... {name} without
\* backticks is then a syntax error.
NotPlainIdentifier(name) == name \in {"vector-index-name"}

Dbs ==
    { [constraints |-> c, indexes |-> i, nodes |-> n, rels |-> r] :
        c \in SUBSET ConstraintNames, i \in SUBSET IndexNames,
        n \in 0..MaxDbNodes, r \in 0..1 }

\* A relationship needs a node at each end.
WellFormedDb(d) == d.rels > 0 => d.nodes > 0

\* delete_all_constraints(tx): SHOW CONSTRAINTS, then DROP CONSTRAINT for
\* every name.  Yields the database the transaction leaves and whether a
\* statement failed.
delete_all_constraints(d) ==
    [failed |-> \E c \in d.constraints : NotPlainIdentifier(c),
     db |-> [d EXCEPT !.constraints = {}]]

\* delete_all_indexes as it would be with the test on index_name inverted:
\* no index is dropped.
delete_all_indexes_none_dropped(d) ==
    [failed |-> FALSE, db |-> d]

\* delete_all_indexes(tx): SHOW INDEXES, then DROP INDEX for every name.
delete_all_indexes(d) ==
    [failed |-> \E i \in d.indexes : NotPlainIdentifier(i),
     db |-> [d EXCEPT !.indexes = {}]]

\* delete_all_nodes_and_relationships(tx): MATCH (n) DETACH DELETE n
delete_all_nodes_and_relationships(d) ==
    [failed |-> FALSE, db |-> [d EXCEPT !.nodes = 0, !.rels = 0]]

\* session.execute_write(work): the work runs in a transaction of its own
\* that commits, or fails and leaves the database as it was.  o is what
\* the server and the connection do to the transaction.
ExecuteWrite(c, step, work, o, nextPc) ==
    LET p == UseDriver(c) IN
    IF o = "ok" /\ ~work.failed
    THEN [p EXCEPT !.db = work.db, !.committed = Append(c.committed, step),
                   !.pc = nextPc]
    ELSE [p EXCEPT !.pc = "except", !.pending = TRUE]

\* The steps of main in the order main runs them.
StepOrder == <<"constraints", "indexes", "nodes">>

\* lines 49-56: the environment check
cleaner_check_env ==
    /\ cleaner.pc = "start"
    /\ cleaner' = IF cleaner.env
                  THEN [cleaner EXCEPT !.pc = "connect"]
                  ELSE [cleaner EXCEPT !.pc = "done", !.logged = TRUE]
    /\ UNCHANGED <<appVars, retrievalVars, splitter, t2c, builder, kg,
                   runner, indexer>>

\* lines 60-61: driver = GraphDatabase.driver(uri, auth=(user, password))
cleaner_connect ==
    /\ cleaner.pc = "connect"
    /\ \E o \in CallOutcomes :
        cleaner' = IF o = "ok"
                   THEN [cleaner EXCEPT !.pc = "session", !.driver = "open"]
                   ELSE [cleaner EXCEPT !.pc = "except", !.pending = TRUE]
    /\ UNCHANGED <<appVars, retrievalVars, splitter, t2c, builder, kg,
                   runner, indexer>>

\* line 63: with driver.session(database=database) as session
cleaner_session ==
    /\ cleaner.pc = "session"
    /\ \E o \in CallOutcomes :
        cleaner' = IF o = "ok"
                   THEN [UseDriver(cleaner) EXCEPT !.pc = "constraints"]
                   ELSE [UseDriver(cleaner) EXCEPT !.pc = "except",
                                                   !.pending = TRUE]
    /\ UNCHANGED <<appVars, retrievalVars, splitter, t2c, builder, kg,
                   runner, indexer>>

\* line 66: session.execute_write(delete_all_constraints)
cleaner_constraints ==
    /\ cleaner.pc = "constraints"
    /\ \E o \in CallOutcomes :
        cleaner' = ExecuteWrite(cleaner, "constraints",
                                delete_all_constraints(cleaner.db), o,
                                "indexes")
    /\ UNCHANGED <<appVars, retrievalVars, splitter, t2c, builder, kg,
                   runner, indexer>>

\* line 70: session.execute_write(delete_all_indexes)
cleaner_indexes ==
    /\ cleaner.pc = "indexes"
    /\ \E o \in CallOutcomes :
        cleaner' = ExecuteWrite(cleaner, "indexes",
                                delete_all_indexes(cleaner.db), o, "nodes")
    /\ UNCHANGED <<appVars, retrievalVars, splitter, t2c, builder, kg,
                   runner, indexer>>

\* lines 74-79: session.execute_write(delete_all_nodes_and_relationships)
\* and the log of its counters
cleaner_nodes ==
    /\ cleaner.pc = "nodes"
    /\ \E o \in CallOutcomes :
        cleaner' = ExecuteWrite(cleaner, "nodes",
                        delete_all_nodes_and_relationships(cleaner.db), o,
                        "finally")
    /\ UNCHANGED <<appVars, retrievalVars, splitter, t2c, builder, kg,
                   runner, indexer>>

\* lines 81-82: except Exception: logger.error(...)
cleaner_except ==
    /\ cleaner.pc = "except"
    /\ cleaner' = [cleaner EXCEPT !.pc = "finally", !.logged = TRUE]
    /\ UNCHANGED <<appVars, retrievalVars, splitter, t2c, builder, kg,
                   runner, indexer>>

\* lines 83-86: finally: close the driver if the name is bound
cleaner_finally ==
    /\ cleaner.pc = "finally"
    /\ cleaner' = IF cleaner.driver # "none"
                  THEN [CloseDriver(cleaner) EXCEPT !.pc = "done"]
                  ELSE [cleaner EXCEPT !.pc = "done"]
    /\ UNCHANGED <<appVars, retrievalVars, splitter, t2c, builder, kg,
                   runner, indexer>>

CleanerStarts ==
    { [CleanerIdle EXCEPT !.pc = "start", !.env = e, !.db = d, !.db0 = d] :
        e \in BOOLEAN, d \in { x \in Dbs : WellFormedDb(x) } }

NextCleaner ==
    \/ cleaner_check_env
    \/ cleaner_connect
    \/ cleaner_session
    \/ cleaner_constraints
    \/ cleaner_indexes
    \/ cleaner_nodes
    \/ cleaner_except
    \/ cleaner_finally

\* The three entry points that acquire a store driver, run side by side.
InitTools ==
    /\ AppIdle
    /\ store = EmptyStore
    /\ RetrievalIdle
    /\ \E sp \in SplitterStarts : \E cl \in CleanerStarts :
        ScriptsAre(sp, T2cIdle, BuilderIdle, KgStart, RunnerIdle, cl,
                   IndexerIdle)

NextTools == NextSplitter \/ NextKg \/ NextCleaner

SpecTools == InitTools /\ [][NextTools]_vars

\* ---- examples/retrieve/dune_text2cypher_search.py
\* save_results(result, query_text, timings): the CSV file is written first,
\* then the JSON file; the call returns with both written, or raises with
\* the CSV file alone or with nothing written.
SaveOutcomes == {"both", "csv", "none"}

\* lines 135-143: the driver is opened and the retriever constructed
t2c_open ==
    /\ t2c.pc = "start"
    /\ \E o \in CallOutcomes :
        t2c' = IF o = "ok"
               THEN [t2c EXCEPT !.pc = "loop"]
               ELSE [t2c EXCEPT !.pc = "done", !.raised = TRUE]
    /\ UNCHANGED <<appVars, retrievalVars, splitter, builder, kg, runner,
                   cleaner, indexer>>

\* The loop as it would be if a failed query were submitted again.
t2c_query_retrying ==
    /\ t2c.pc = "loop"
    /\ t2c.i < NumQueries
    /\ LET q == t2c.i + 1 IN
       \E o \in CallOutcomes : \E s \in SaveOutcomes :
        t2c' =
            IF o = "raise"
            THEN [t2c EXCEPT !.submitted[q] = @ + 1, !.failed[q] = TRUE,
                             !.logged[q] = TRUE]
            ELSE [t2c EXCEPT !.submitted[q] = @ + 1, !.files[q] = s,
                             !.logged[q] = (s # "both"), !.i = q]
    /\ UNCHANGED <<appVars, retrievalVars, splitter, builder, kg, runner,
                   cleaner, indexer>>

\* lines 155-205: one iteration of the loop.  retriever.get_search_results
\* (line 170) returns or raises; when it returns, save_results (line 193)
\* runs; except Exception (lines 202-205) logs and continues.
t2c_query ==
    /\ t2c.pc = "loop"
    /\ t2c.i < NumQueries
    /\ LET q == t2c.i + 1 IN
       \E o \in CallOutcomes : \E s \in SaveOutcomes :
        t2c' =
            IF o = "raise"
            THEN [t2c EXCEPT !.submitted[q] = @ + 1, !.failed[q] = TRUE,
                             !.logged[q] = TRUE, !.i = q]
            ELSE [t2c EXCEPT !.submitted[q] = @ + 1, !.files[q] = s,
                             !.logged[q] = (s # "both"), !.i = q]
    /\ UNCHANGED <<appVars, retrievalVars, splitter, builder, kg, runner,
                   cleaner, indexer>>

\* lines 207-209: the loop has ended, the with block is left
t2c_exit ==
    /\ t2c.pc = "loop"
    /\ t2c.i = NumQueries
    /\ t2c' = [t2c EXCEPT !.pc = "done"]
    /\ UNCHANGED <<appVars, retrievalVars, splitter, builder, kg, runner,
                   cleaner, indexer>>

T2cStart == [T2cIdle EXCEPT !.pc = "start"]

InitT2c ==
    /\ AppIdle
    /\ store = EmptyStore
    /\ RetrievalIdle
    /\ ScriptsAre(SplitterIdle, T2cStart, BuilderIdle, KgIdle, RunnerIdle,
                  CleanerIdle, IndexerIdle)

NextT2c == t2c_open \/ t2c_query \/ t2c_exit

SpecT2c == InitT2c /\ [][NextT2c]_vars

\* ---- build_all_graphs.py
\* main, lines 54-82: the directory check, one process_config coroutine per
\* *.yaml file, all handed to asyncio.gather
builder_main_start ==
    /\ builder.pc = "start"
    /\ builder' =
        IF ~builder.dirExists
        THEN [builder EXCEPT !.pc = "done", !.raised = TRUE]
        ELSE [builder EXCEPT
                !.pc = "gather",
                !.tasks = [n \in 1..MaxYaml |->
                            IF n <= builder.files THEN "pending" ELSE "none"]]
    /\ UNCHANGED <<appVars, retrievalVars, splitter, t2c, kg, runner,
                   cleaner, indexer>>

\* Some task other than n has not ended yet.
OthersRunning(n) ==
    \E m \in 1..MaxYaml \ {n} : builder.tasks[m] \in {"pending", "awaiting"}

\* process_config, lines 27-40: up to the await of pipeline.run.
\* PipelineRunner.from_config_file returns or raises; a raise is caught and
\* logged by lines 49-50 and the task ends.
builder_task_begin(n) ==
    /\ builder.pc = "gather"
    /\ builder.tasks[n] = "pending"
    /\ \E o \in CallOutcomes :
        builder' =
            IF o = "ok"
            THEN [builder EXCEPT
                    !.tasks[n] = "awaiting",
                    !.overlapped = builder.overlapped \/
                        \E m \in 1..MaxYaml : builder.tasks[m] = "awaiting"]
            ELSE [builder EXCEPT
                    !.tasks[n] = "done", !.failed[n] = TRUE,
                    !.logged[n] = TRUE,
                    !.failedAmid = builder.failedAmid \/ OthersRunning(n)]
    /\ UNCHANGED <<appVars, retrievalVars, splitter, t2c, kg, runner,
                   cleaner, indexer>>

\* process_config as it would be without its try/except: the exception
\* leaves the task, gather raises it in main, and the event loop cancels
\* the tasks still running when asyncio.run shuts down.
builder_task_end_uncaught(n) ==
    /\ builder.pc = "gather"
    /\ builder.tasks[n] = "awaiting"
    /\ \E o \in CallOutcomes :
        builder' =
            IF o = "ok"
            THEN [builder EXCEPT !.tasks[n] = "done"]
            ELSE [builder EXCEPT
                    !.pc = "done", !.raised = TRUE, !.failed[n] = TRUE,
                    !.tasks = [m \in 1..MaxYaml |->
                        IF m = n THEN "done"
                        ELSE IF builder.tasks[m] \in {"pending", "awaiting"}
                        THEN "cancelled" ELSE builder.tasks[m]]]
    /\ UNCHANGED <<appVars, retrievalVars, splitter, t2c, kg, runner,
                   cleaner, indexer>>

\* process_config, lines 40-50: pipeline.run has finished or raised; a
\* raise is caught and logged inside the task.
builder_task_end(n) ==
    /\ builder.pc = "gather"
    /\ builder.tasks[n] = "awaiting"
    /\ \E o \in CallOutcomes :
        builder' =
            IF o = "ok"
            THEN [builder EXCEPT !.tasks[n] = "done"]
            ELSE [builder EXCEPT
                    !.tasks[n] = "done", !.failed[n] = TRUE,
                    !.logged[n] = TRUE,
                    !.failedAmid = builder.failedAmid \/ OthersRunning(n)]
    /\ UNCHANGED <<appVars, retrievalVars, splitter, t2c, kg, runner,
                   cleaner, indexer>>

\* main, lines 82-86: gather returns when every task has ended
builder_main_finish ==
    /\ builder.pc = "gather"
    /\ \A n \in 1..MaxYaml : builder.tasks[n] \in {"none", "done"}
    /\ builder' = [builder EXCEPT !.pc = "done"]
    /\ UNCHANGED <<appVars, retrievalVars, splitter, t2c, kg, runner,
                   cleaner, indexer>>

BuilderStarts ==
    { [BuilderIdle EXCEPT !.pc = "start", !.dirExists = d, !.files = f] :
        d \in BOOLEAN, f \in 0..MaxYaml }

InitBuilder ==
    /\ AppIdle
    /\ store = EmptyStore
    /\ RetrievalIdle
    /\ \E bd \in BuilderStarts :
        ScriptsAre(SplitterIdle, T2cIdle, bd, KgIdle, RunnerIdle,
                   CleanerIdle, IndexerIdle)

NextBuilder ==
    \/ builder_main_start
    \/ \E n \in 1..MaxYaml : builder_task_begin(n)
    \/ \E n \in 1..MaxYaml : builder_task_end(n)
    \/ builder_main_finish

SpecBuilder == InitBuilder /\ [][NextBuilder]_vars

\* ---- run_all_retrievers.py, examples/retrieve/run_all_retrievers.py
\* main: the list of retriever scripts
Retrievers ==
    <<"dune_similarity_search.py", "dune_vector_cypher_search.py",
      "dune_hybrid_search.py", "dune_hybrid_cypher_search.py",
      "dune_similarity_search_for_vector.py", "dune_text2cypher_search.py">>

\* The scripts that catch, inside the script, an exception raised while a
\* query is processed (process_query of the three scripts, the loop body of
\* dune_text2cypher_search); the other two let it leave the module.
CatchesQueryErrors ==
    {"dune_vector_cypher_search.py", "dune_hybrid_search.py",
     "dune_hybrid_cypher_search.py", "dune_text2cypher_search.py"}

\* What running a script that exists can meet: nothing, an error while one
\* of its queries is processed, or an error outside the query processing
\* (the imports, the driver).
ScriptOutcomes == {"clean", "query_error", "load_error"}

\* What a script meets when main comes to it; a missing file runs nothing.
Attempts ==
    {[exists |-> FALSE, outcome |-> "none"]} \cup
    {[exists |-> TRUE, outcome |-> o] : o \in ScriptOutcomes}

\* Executing the module raises.
ScriptRaises(name, outcome) ==
    \/ outcome = "load_error"
    \/ outcome = "query_error" /\ name \notin CatchesQueryErrors

\* import_script(script_path): the module, or None when executing it raised
import_script(name, outcome) ==
    IF ScriptRaises(name, outcome) THEN "None" ELSE "module"

\* run_retriever(script_name)
run_retriever(name, a) ==
    IF ~a.exists THEN FALSE
    ELSE IF import_script(name, a.outcome) = "None" THEN FALSE
    ELSE TRUE

\* main: setup_directories() (os.makedirs in examples/retrieve) returns or
\* raises
runner_setup ==
    /\ runner.pc = "start"
    /\ \E o \in CallOutcomes :
        runner' = IF o = "ok"
                  THEN [runner EXCEPT !.pc = "loop"]
                  ELSE [runner EXCEPT !.pc = "done", !.raised = TRUE]
    /\ UNCHANGED <<appVars, retrievalVars, splitter, t2c, builder, kg,
                   cleaner, indexer>>

\* main as it would be if the loop ended at the first script that failed.
runner_run_until_failure ==
    /\ runner.pc = "loop"
    /\ runner.i < Len(Retrievers)
    /\ LET name == Retrievers[runner.i + 1] IN
       \E a \in Attempts :
        LET success == run_retriever(name, a) IN
        runner' = [runner EXCEPT
            !.i = IF success THEN runner.i + 1 ELSE Len(Retrievers),
            !.runs = Append(runner.runs, [name |-> name, attempt |-> a]),
            !.results = Append(runner.results,
                               [name |-> name, success |-> success])]
    /\ UNCHANGED <<appVars, retrievalVars, splitter, t2c, builder, kg,
                   cleaner, indexer>>

\* main, the loop over retrievers: success = run_retriever(retriever);
\* results.append((retriever, success))
runner_run ==
    /\ runner.pc = "loop"
    /\ runner.i < Len(Retrievers)
    /\ LET name == Retrievers[runner.i + 1] IN
       \E a \in Attempts :
        runner' = [runner EXCEPT
            !.i = runner.i + 1,
            !.runs = Append(runner.runs, [name |-> name, attempt |-> a]),
            !.results = Append(runner.results,
                [name |-> name, success |-> run_retriever(name, a)])]
    /\ UNCHANGED <<appVars, retrievalVars, splitter, t2c, builder, kg,
                   cleaner, indexer>>

\* The counting loop of the summary over the first k results.
RECURSIVE CountSuccessful(_, _)
CountSuccessful(results, k) ==
    IF k = 0 THEN 0
    ELSE CountSuccessful(results, k - 1) +
         (IF results[k].success THEN 1 ELSE 0)

\* main, the summary: successful counts the results whose success is True
runner_summary ==
    /\ runner.pc = "loop"
    /\ runner.i = Len(Retrievers)
    /\ runner' = [runner EXCEPT
            !.pc = "done", !.summary = TRUE,
            !.successful = CountSuccessful(runner.results,
                                           Len(runner.results))]
    /\ UNCHANGED <<appVars, retrievalVars, splitter, t2c, builder, kg,
                   cleaner, indexer>>

RunnerStart == [RunnerIdle EXCEPT !.pc = "start"]

InitRunner ==
    /\ AppIdle
    /\ store = EmptyStore
    /\ RetrievalIdle
    /\ ScriptsAre(SplitterIdle, T2cIdle, BuilderIdle, KgIdle, RunnerStart,
                  CleanerIdle, IndexerIdle)

NextRunner == runner_setup \/ runner_run \/ runner_summary

SpecRunner == InitRunner /\ [][NextRunner]_vars

\* ---- examples/database_operations/create_vector_index.py
\* examples/utils.py: generate_vector_index_name, the function line 12 of
\* the script imports
utils_generate_vector_index_name(label, property_name, dimensions, similarity) ==
    "dune_vector_search"

\* str.lower() on the labels of the repository
Lower(label) ==
    CASE label = "Chunk" -> "chunk"
      [] label = "TextChunk" -> "textchunk"
      [] OTHER -> label

\* lines 22-41: the function of the same name the script defines after the
\* import; the later binding is the one line 45 calls
generate_vector_index_name(label, property_name, dimensions, similarity) ==
    "vector_" \o Lower(label) \o "_" \o property_name \o "_" \o
    ToString(dimensions) \o "_" \o similarity

DIMENSION == 1536

\* lines 45-50
INDEX_NAME ==
    generate_vector_index_name("Chunk", "embedding", DIMENSION, "cosine")

\* INDEX_NAME / VECTOR_INDEX_NAME of the vector-based retriever scripts
RetrieverIndexName == "dune_vector_search"

\* The retriever scripts that name a vector index
VectorScripts ==
    {"dune_similarity_search.py", "dune_vector_cypher_search.py",
     "dune_hybrid_search.py", "dune_hybrid_cypher_search.py",
     "dune_similarity_search_for_vector.py"}

\* Vector indexes on (:Chunk).embedding, and the full-text index of
\* create_textchunk_index.py
ChunkVectorIndexes == {RetrieverIndexName, INDEX_NAME}

IndexerNames == ChunkVectorIndexes \cup {"textchunk_fulltext"}

\* The store holds at most one vector index on a label and property.
IndexSets ==
    { x \in SUBSET IndexerNames : Cardinality(x \cap ChunkVectorIndexes) <= 1 }

\* line 55: the driver is opened
indexer_open ==
    /\ indexer.pc = "start"
    /\ \E o \in CallOutcomes :
        indexer' = IF o = "ok"
                   THEN [indexer EXCEPT !.pc = "create"]
                   ELSE [indexer EXCEPT !.pc = "done", !.failed = TRUE]
    /\ UNCHANGED <<appVars, retrievalVars, splitter, t2c, builder, kg,
                   runner, cleaner>>

\* lines 56-67: create_vector_index(driver, INDEX_NAME, label="Chunk",
\* embedding_property="embedding", ...) inside try/except.  The call
\* raises, or returns with the index created under INDEX_NAME unless a
\* vector index on the label and property is there already.
indexer_create ==
    /\ indexer.pc = "create"
    /\ \E o \in CallOutcomes :
        indexer' =
            IF o = "raise"
            THEN [indexer EXCEPT !.pc = "done", !.failed = TRUE]
            ELSE [indexer EXCEPT
                    !.pc = "done", !.created = TRUE,
                    !.indexes =
                        IF indexer.indexes \cap ChunkVectorIndexes = {}
                        THEN indexer.indexes \cup {indexer.name}
                        ELSE indexer.indexes]
    /\ UNCHANGED <<appVars, retrievalVars, splitter, t2c, builder, kg,
                   runner, cleaner>>

\* A vector-based retriever script run afterwards finds the index it names
\* in the store, or does not.
indexer_lookup(script) ==
    /\ indexer.pc = "done"
    /\ script \notin DOMAIN indexer.found
    /\ indexer' = [indexer EXCEPT
            !.found = (script :> (RetrieverIndexName \in indexer.indexes))
                      @@ indexer.found]
    /\ UNCHANGED <<appVars, retrievalVars, splitter, t2c, builder, kg,
                   runner, cleaner>>

IndexerStarts ==
    { [IndexerIdle EXCEPT !.pc = "start", !.name = INDEX_NAME,
                          !.indexes = x] : x \in IndexSets }

InitIndexer ==
    /\ AppIdle
    /\ store = EmptyStore
    /\ RetrievalIdle
    /\ \E ix \in IndexerStarts :
        ScriptsAre(SplitterIdle, T2cIdle, BuilderIdle, KgIdle, RunnerIdle,
                   CleanerIdle, ix)

NextIndexer ==
    \/ indexer_open
    \/ indexer_create
    \/ \E script \in VectorScripts : indexer_lookup(script)

SpecIndexer == InitIndexer /\ [][NextIndexer]_vars

\* ------------------------------------------------------ response shapes
SuccessBody(b) ==
    /\ {"answer", "query", "top_k", "status"} \subseteq DOMAIN b
    /\ b.status = "success"

ErrorBody(b) ==
    /\ {"error", "status"} \subseteq DOMAIN b
    /\ b.status = "error"

\* The request carries no body, or a body without the query field.
MissingFields(p) ==
    \/ p.sent = "nonjson"
    \/ p.sent = "json" /\ p.data.kind = "null"
    \/ p.sent = "json" /\ p.data.kind = "dict" /\ ~p.data.hasQuery

QueryFieldPresent(p) ==
    p.sent = "json" /\ p.data.kind = "dict" /\ p.data.hasQuery

\* ---------------------------------------------------------------- claims

\* C7: every response of POST /query is either 200 with a body holding
\* answer, query, top_k and status = "success", or an error response whose
\* body holds both error and status = "error", with 400 when the body or
\* its query field is missing and 500 otherwise; rag.search is called only
\* when the query field is present.
C7_QueryResponseContract ==
    route = "/query" =>
        /\ \/ response.code = HttpOk /\ SuccessBody(response.body)
           \/ /\ response.code \in {HttpBadRequest, HttpInternalError}
              /\ ErrorBody(response.body)
        /\ MissingFields(payload) => response.code = HttpBadRequest
        /\ search.called => QueryFieldPresent(payload)

\* C8: when rag.search raises, POST /query and POST /webhook answer 500
\* with an error body (error set, status = "error"), never a success.
C8_SearchFailureSurfaced ==
    (route \in {"/query", "/webhook"} /\ search.called /\ search.raised) =>
        /\ response.code = HttpInternalError
        /\ ErrorBody(response.body)
        /\ "answer" \notin DOMAIN response.body

\* Witness of C8: after an earlier request, a webhook request whose
\* rag.search call raised has been answered with 500.
C8_Witness ==
    /\ served >= 2
    /\ route = "/webhook"
    /\ search.called /\ search.raised
    /\ search.top_k = WebhookTopK
    /\ response.code = HttpInternalError

\* C22: POST /webhook obeys the response contract of POST /query (success
\* body with answer, query, top_k and status = "success"; error body with
\* error and status = "error"; 400 for missing fields, 500 otherwise) and
\* always retrieves with top_k = 5.
C22_WebhookContract ==
    route = "/webhook" =>
        /\ \/ response.code = HttpOk /\ SuccessBody(response.body)
           \/ /\ response.code \in {HttpBadRequest, HttpInternalError}
              /\ ErrorBody(response.body)
        /\ MissingFields(payload) => response.code = HttpBadRequest
        /\ search.called => search.top_k = WebhookTopK

\* The one-hop expansion of a single chunk: each relationship leaving it,
\* once.
Expansion(st, n) == [r \in Rels |-> IF r \in st.out[n] THEN 1 ELSE 0]

\* C17: graph expansion never changes which segments are returned: the
\* Vector-Cypher and Hybrid-Cypher results hold the segments of the index
\* stage, in the same order, each with its one-hop expansion; a segment
\* with nothing connected is still returned, with an empty expansion.
C17_ExpansionKeepsSegments ==
    strategy # "none" =>
        /\ Len(records) = Len(hits)
        /\ \A i \in 1..Len(hits) :
            i <= Len(records) =>
                /\ records[i].content = store.props[hits[i].node].text
                /\ records[i].similarityScore = hits[i].score
                /\ records[i].connections = Expansion(store, hits[i].node)

\* C23: in process_all_configs, when processing one configuration file
\* fails, the failure is logged and the remaining files are still processed.
C23_RemainingConfigsProcessed ==
    (splitter.pc = "done" /\ splitter.attempted > 0) =>
        splitter.attempted = splitter.files

\* The driver discipline of one entry point.
DriverReleased(p) ==
    /\ p.closes <= 1
    /\ ~p.usedClosed
    /\ p.driver = "none" => p.closes = 0
    /\ p.driver = "open" => p.closes = 0
    /\ p.driver = "closed" => p.closes = 1
    /\ p.pc = "done" => p.driver # "open"

\* C26: process_text_to_kg, process_all_configs and delete_all_graphs.main
\* close the driver exactly once whenever they acquired it, on the return
\* path and on every error path, and never use it after closing it.
C26_DriversReleased ==
    /\ DriverReleased(kg)
    /\ DriverReleased(splitter)
    /\ DriverReleased(cleaner)

\* Witness of C26: all three have ended with the driver closed, one by a
\* return and two through an error.
C26_Witness ==
    /\ kg.pc = "done" /\ kg.returned /\ kg.driver = "closed"
    /\ splitter.pc = "done" /\ splitter.raised /\ splitter.driver = "closed"
    /\ splitter.attempted > 0
    /\ cleaner.pc = "done" /\ cleaner.logged /\ cleaner.driver = "closed"
    /\ Len(cleaner.committed) = 1

\* The database after the first k steps of main have committed.
AfterSteps(d, k) ==
    [constraints |-> IF k >= 1 THEN {} ELSE d.constraints,
     indexes |-> IF k >= 2 THEN {} ELSE d.indexes,
     nodes |-> IF k >= 3 THEN 0 ELSE d.nodes,
     rels |-> IF k >= 3 THEN 0 ELSE d.rels]

\* C29: delete_all_graphs.main drops constraints, then indexes, then nodes
\* and relationships, one committed transaction after the other; after a
\* failed step no later step runs and what earlier steps did persists; with
\* a required environment variable missing nothing is deleted and no driver
\* is opened; when main ends without an error the database is empty.
C29_DeleteAllInOrder ==
    /\ Len(cleaner.committed) <= Len(StepOrder)
    /\ cleaner.committed = SubSeq(StepOrder, 1, Len(cleaner.committed))
    /\ cleaner.db = AfterSteps(cleaner.db0, Len(cleaner.committed))
    /\ cleaner.pending => cleaner.pc \in {"except", "finally", "done"}
    /\ ~cleaner.env =>
            /\ cleaner.db = cleaner.db0
            /\ cleaner.driver = "none"
            /\ cleaner.committed = <<>>
    /\ (cleaner.pc = "done" /\ cleaner.env /\ ~cleaner.logged) =>
            /\ cleaner.committed = StepOrder
            /\ cleaner.db = EmptyDb

\* Witness of C29: main has ended without an error on a database that held
\* a constraint, an index, nodes and a relationship.
C29_Witness ==
    /\ cleaner.pc = "done" /\ cleaner.env /\ ~cleaner.logged
    /\ cleaner.db0.constraints # {} /\ cleaner.db0.indexes # {}
    /\ cleaner.db0.nodes > 0 /\ cleaner.db0.rels > 0
    /\ cleaner.db = EmptyDb

\* C24: in dune_text2cypher_search each query is submitted to the retriever
\* at most once; when the retriever fails on a query the failure is logged,
\* no result file is written for it, it is not submitted again, and every
\* remaining query is still processed.
C24_FailedQueryNotRetried ==
    /\ \A q \in 1..NumQueries :
        /\ t2c.submitted[q] <= 1
        /\ q <= t2c.i => t2c.submitted[q] = 1
        /\ t2c.failed[q] =>
                /\ t2c.logged[q]
                /\ t2c.files[q] = "none"
                /\ q <= t2c.i
    /\ (t2c.pc = "done" /\ ~t2c.raised) =>
            \A q \in 1..NumQueries : t2c.submitted[q] = 1

\* Witness of C24: the script has ended after the retriever failed on the
\* first and the fourth query and the others wrote their files.
C24_Witness ==
    /\ t2c.pc = "done"
    /\ t2c.failed[1] /\ t2c.failed[4]
    /\ \A q \in {2, 3, 5} : ~t2c.failed[q] /\ t2c.files[q] = "both"
    /\ \A q \in 1..NumQueries : t2c.submitted[q] = 1

\* C25: build_all_graphs.main starts one process_config task per *.yaml
\* file and the tasks run concurrently; an error of one configuration is
\* caught and logged inside its own task, no task is cancelled by it, and
\* main finishes once every task has ended.
C25_TasksIndependent ==
    /\ builder.pc \in {"gather", "done"} /\ builder.dirExists =>
            \A n \in 1..MaxYaml :
                (builder.tasks[n] # "none") <=> (n <= builder.files)
    /\ \A n \in 1..MaxYaml :
        /\ builder.tasks[n] # "cancelled"
        /\ builder.failed[n] =>
                builder.logged[n] /\ builder.tasks[n] = "done"
    /\ builder.raised => ~builder.dirExists
    /\ (builder.pc = "done" /\ builder.dirExists) =>
            \A n \in 1..builder.files : builder.tasks[n] = "done"

\* Witness of C25: main has finished after tasks were in flight together,
\* the second failed while another was still running, and the first and
\* the third ended well.
C25_Witness ==
    /\ builder.pc = "done" /\ builder.files = 3
    /\ builder.overlapped /\ builder.failedAmid
    /\ builder.failed[2] /\ ~builder.failed[1] /\ ~builder.failed[3]
    /\ \A n \in 1..3 : builder.tasks[n] = "done"

\* C27: run_retriever(script) returns True if and only if the script file
\* exists and ran to completion with no error, including no error while
\* one of its queries was processed.
C27_TrueIffNoError ==
    \A k \in 1..Len(runner.results) :
        runner.results[k].success <=>
            /\ runner.runs[k].attempt.exists
            /\ runner.runs[k].attempt.outcome = "clean"

C30_CreatedIndexIsRetrieversIndex ==
    (indexer.pc = "done" /\ indexer.created) =>
        /\ indexer.name = RetrieverIndexName
        /\ RetrieverIndexName \in indexer.indexes
        /\ \A script \in DOMAIN indexer.found : indexer.found[script]

====
